---- MODULE Spec2Model ----
(***************************************************************************)
(* A model of ut-payplan: the cache gate (get_payment_plan), the           *)
(* pagination fetcher (fetch_all_data), the snapshot writer                *)
(* (save_payment_plan_data) of src/main.py, and the field parsers and      *)
(* accessors of JobListing (src/classes.py).                               *)
(*                                                                         *)
(* An invocation of get_payment_plan is a process p; the snapshot file and *)
(* the remote API are shared.  Text is a sequence of one-character         *)
(* strings.  The snapshot file's content is a sequence of slots: one slot  *)
(* per serialized record, and a closing slot for the end of the JSON       *)
(* document; a writer's handle has its own offset, as under POSIX.         *)
(***************************************************************************)
EXTENDS Integers, Sequences, FiniteSets, TLC

VARIABLES
    recordsTotal,   \* the remote dataset's size, as the API reports it
    file,           \* the snapshot file at OUTPUT_PATH: [exists, content]
    dir,            \* whether OUTPUT_PATH's parent directory exists
    pc,             \* each invocation's position in get_payment_plan
    calls,          \* invocations started so far, per process
    hit,            \* the invocation found the file at its existence check
    probeMissing,   \* the probe's response lacked recordsTotal
    total_records,  \* get_payment_plan's total_records
    item,           \* fetch_all_data's loop variable
    all_data,       \* fetch_all_data's accumulator
    reqLog,         \* the requests this invocation issued, in order
    respLog,        \* the data arrays of the page responses, in order
    pageFailed,     \* a page request of this invocation failed at transport level
    buf,            \* the serialized snapshot being written through the handle
    pos,            \* how many slots of buf the handle has written out
    wrote,          \* this invocation opened the snapshot file for writing
    result,         \* what the invocation ended with
    afterReturn,    \* the invocation started after some call had returned a snapshot
    everReturned,   \* some invocation has returned a snapshot
    text,           \* JobListing: the string under the field parser
    parsed,         \* JobListing: what the field parser returned
    raw,            \* a RawRecord
    job_dict,       \* JobListing.job_dict
    job_dict0,      \* job_dict as it was when the JobListing was constructed
    got,            \* the values the accessors returned so far
    stage           \* the position of the field-level run

protoVars == << recordsTotal, file, dir, pc, calls, hit, probeMissing, total_records,
                item, all_data, reqLog, respLog, pageFailed, buf, pos, wrote, result,
                afterReturn, everReturned >>

fieldVars == << text, parsed, raw, job_dict, job_dict0, got, stage >>

vars == << recordsTotal, file, dir, pc, calls, hit, probeMissing, total_records,
           item, all_data, reqLog, respLog, pageFailed, buf, pos, wrote, result,
           afterReturn, everReturned, text, parsed, raw, job_dict, job_dict0, got, stage >>

----------------------------------------------------------------------------
(* Bounds of the model. *)

\* Invocations each process may start.
MaxCalls == 2

\* The processes that may run get_payment_plan at the same time.
Procs == {1, 2}

\* The sizes the remote dataset may have.
Totals == {0, 1, 100, 101, 250}

\* Pieces a salary text is made of, at most.
MaxSegs == 3

\* Characters of a title markup, at most.
MaxTitleLen == 4

\* Fields of a RawRecord, at most.
MaxFields == 7

----------------------------------------------------------------------------
(* configs.py *)

KEYS == << "Job Title", "Job ID (Job Code)", "Job Category", "Effective Date",
           "Annual Min - Max", "Monthly Min - Max" >>

\* The fixed page length of fetch_all_data.
PageSize == 100

\* None, and a value that is not None.
Null == << >>
Some(v) == << v >>

Min(a, b) == IF a < b THEN a ELSE b

\* The sequences of a sequence, joined in order.
RECURSIVE Concat(_)
Concat(ss) == IF ss = << >> THEN << >> ELSE Head(ss) \o Concat(Tail(ss))

----------------------------------------------------------------------------
(* The record normaliser: dict(zip(KEYS, job)). *)

\* zip(KEYS, job): the pairs up to the shorter of the two.
Zip(keys, job) == [i \in 1..Min(Len(keys), Len(job)) |-> << keys[i], job[i] >>]

\* dict(pairs): a later pair of the same key replaces an earlier one.
Dict(pairs) ==
    [k \in {pairs[i][1] : i \in DOMAIN pairs} |->
        LET last == CHOOSE i \in DOMAIN pairs :
                        /\ pairs[i][1] = k
                        /\ \A j \in DOMAIN pairs : pairs[j][1] = k => j <= i
        IN pairs[last][2]]

\* The pairing, had it filled the keys left over with None.
ToNamedRecordPadded(job) ==
    [k \in {KEYS[i] : i \in 1..Len(KEYS)} |->
        LET i == CHOOSE j \in 1..Len(KEYS) : KEYS[j] = k
        IN IF i <= Len(job) THEN job[i] ELSE Null]

\* payment_plan_data's element for one job: dict(zip(KEYS, job)).
ToNamedRecord(job) == Dict(Zip(KEYS, job))

----------------------------------------------------------------------------
(* The remote API. *)

\* The record the API serves in answer to the request with this draw counter.
Row(draw) == << <<"t0", "t1", "t2", "t3">>[draw + 1], "id", "cat", "date", "ann", "mon" >>

\* generate_get_url: the query parameters sent, with the defaults of params.
GenerateGetUrl(q) ==
    [draw   |-> IF "draw" \in DOMAIN q THEN q["draw"] ELSE 0,
     start  |-> IF "start" \in DOMAIN q THEN q["start"] ELSE 0,
     length |-> IF "length" \in DOMAIN q THEN q["length"] ELSE 100]

\* What a request may come back as.  "conn": requests.get raises (connection
\* refused, timeout).  Otherwise a response with a status; its body is JSON or
\* not, and a JSON body holds "data" or not.
PageResponses(draw) ==
    { [kind |-> "conn", status |-> 0, json |-> FALSE, hasData |-> FALSE, data |-> << >>],
      [kind |-> "http", status |-> 200, json |-> TRUE, hasData |-> TRUE, data |-> << Row(draw) >>],
      [kind |-> "http", status |-> 200, json |-> TRUE, hasData |-> FALSE, data |-> << >>],
      [kind |-> "http", status |-> 200, json |-> FALSE, hasData |-> FALSE, data |-> << >>],
      [kind |-> "http", status |-> 500, json |-> FALSE, hasData |-> FALSE, data |-> << >>],
      [kind |-> "http", status |-> 500, json |-> TRUE, hasData |-> FALSE, data |-> << >>] }

\* A transport-level failure: no response, or a non-2xx status.
TransportFailure(r) == r.kind = "conn" \/ r.status < 200 \/ r.status > 299

\* requests.get(...) followed by response.json(): whether either raises.
Raises(r) == r.kind = "conn" \/ ~r.json

\* response.json().get("data", [])
DataOf(r) == IF r.hasData THEN r.data ELSE << >>

----------------------------------------------------------------------------
(* The snapshot file. *)

Absent == [exists |-> FALSE, content |-> << >>]

NoRecord == [k \in {} |-> ""]

RecSlot(r) == [kind |-> "rec", val |-> r]
EndSlot == [kind |-> "end", val |-> NoRecord]
HoleSlot == [kind |-> "hole", val |-> NoRecord]

\* json.dump({"data": records}, file, indent=4), as the slots it writes.
Serialize(records) == [i \in 1..Len(records) |-> RecSlot(records[i])] \o << EndSlot >>

\* Whether a content is one whole JSON document.
Parses(content) ==
    /\ Len(content) >= 1
    /\ content[Len(content)].kind = "end"
    /\ \A i \in 1..(Len(content) - 1) : content[i].kind = "rec"

\* json.load of a content that parses: the snapshot's records.
Deserialize(content) == [i \in 1..(Len(content) - 1) |-> content[i].val]

\* OUTPUT_PATH.exists()
Exists(f) == f.exists

\* open(OUTPUT_PATH, "w"): the file is created, or truncated if it was there.
OpenW(f) == [exists |-> TRUE, content |-> << >>]

\* A write of slots from..to of b at those offsets of the file; a file shorter
\* than the offset is extended with a hole.
WriteAt(f, b, from, to) ==
    LET n == IF Len(f.content) > to THEN Len(f.content) ELSE to
    IN [exists |-> TRUE,
        content |-> [i \in 1..n |->
                        IF i >= from /\ i <= to THEN b[i]
                        ELSE IF i <= Len(f.content) THEN f.content[i]
                        ELSE HoleSlot]]

\* A snapshot left by an earlier run.
OldSnapshot == [exists |-> TRUE, content |-> Serialize(<< ToNamedRecord(Row(0)) >>)]

----------------------------------------------------------------------------
(* fetch_all_data *)

\* The page count, had the division been rounded down.
PageCountFloor(total) == total \div PageSize

\* int(math.ceil(total_records / 100))
PageCount(total) ==
    IF total % PageSize = 0 THEN total \div PageSize ELSE (total \div PageSize) + 1

\* params of the page request for this value of the loop variable.
PageParams(i) ==
    [k \in {"draw", "length", "start"} |->
        CASE k = "draw" -> i
          [] k = "length" -> PageSize
          [] k = "start" -> i * PageSize]

----------------------------------------------------------------------------
(* get_payment_plan, one process per invocation. *)

NoResult == [kind |-> "none", data |-> << >>, err |-> ""]
Returned(d) == [kind |-> "ok", data |-> d, err |-> ""]
Raised(e) == [kind |-> "error", data |-> << >>, err |-> e]

\* What the probe request may come back as.
ProbeResponses ==
    { [kind |-> "conn", status |-> 0, json |-> FALSE, hasTotal |-> FALSE],
      [kind |-> "http", status |-> 200, json |-> TRUE, hasTotal |-> TRUE],
      [kind |-> "http", status |-> 200, json |-> TRUE, hasTotal |-> FALSE],
      [kind |-> "http", status |-> 200, json |-> FALSE, hasTotal |-> FALSE],
      [kind |-> "http", status |-> 500, json |-> FALSE, hasTotal |-> FALSE],
      [kind |-> "http", status |-> 500, json |-> TRUE, hasTotal |-> FALSE] }

Running(p) == pc[p] \in {"probe", "paging", "open", "write", "read"}

\* A new invocation up to its existence check (line 120), found being what
\* the check answered.
GateStep(p, found) ==
    /\ pc[p] \in {"idle", "done", "raised", "killed"}
    /\ calls[p] < MaxCalls
    /\ calls' = [calls EXCEPT ![p] = @ + 1]
    /\ hit' = [hit EXCEPT ![p] = found]
    /\ pc' = [pc EXCEPT ![p] = IF found THEN "read" ELSE "probe"]
    /\ afterReturn' = [afterReturn EXCEPT ![p] = everReturned]
    /\ probeMissing' = [probeMissing EXCEPT ![p] = FALSE]
    /\ total_records' = [total_records EXCEPT ![p] = 0]
    /\ item' = [item EXCEPT ![p] = 0]
    /\ all_data' = [all_data EXCEPT ![p] = << >>]
    /\ reqLog' = [reqLog EXCEPT ![p] = << >>]
    /\ respLog' = [respLog EXCEPT ![p] = << >>]
    /\ pageFailed' = [pageFailed EXCEPT ![p] = FALSE]
    /\ buf' = [buf EXCEPT ![p] = << >>]
    /\ pos' = [pos EXCEPT ![p] = 0]
    /\ wrote' = [wrote EXCEPT ![p] = FALSE]
    /\ result' = [result EXCEPT ![p] = NoResult]
    /\ UNCHANGED << recordsTotal, file, dir, everReturned >>
    /\ UNCHANGED fieldVars

\* Gate, had it held a lock from the existence check to the end of the write.
GateLocked(p) ==
    /\ \A q \in Procs \ {p} : pc[q] \notin {"probe", "paging", "open", "write"}
    /\ GateStep(p, Exists(file))

\* Gate, had it fetched whether or not the file is there.
GateRefetch(p) == GateStep(p, FALSE)

\* The existence check takes no lock: nothing but the caller decides when an
\* invocation starts.
Gate(p) == GateStep(p, Exists(file))

\* The probe (lines 121-131): one request of length 1, then the branch on
\* recordsTotal.  Without it the diagnostic is printed and control falls
\* through to the read of line 134.
Probe(p) ==
    /\ pc[p] = "probe"
    /\ reqLog' = [reqLog EXCEPT ![p] = Append(@, GenerateGetUrl([k \in {"length"} |-> 1]))]
    /\ \E r \in ProbeResponses :
        IF r.kind = "conn" \/ ~r.json
        THEN /\ pc' = [pc EXCEPT ![p] = "raised"]
             /\ result' = [result EXCEPT ![p] = Raised("RequestException")]
             /\ UNCHANGED << probeMissing, total_records >>
        ELSE IF ~r.hasTotal
        THEN /\ pc' = [pc EXCEPT ![p] = "read"]
             /\ probeMissing' = [probeMissing EXCEPT ![p] = TRUE]
             /\ UNCHANGED << result, total_records >>
        ELSE /\ pc' = [pc EXCEPT ![p] = "paging"]
             /\ total_records' = [total_records EXCEPT ![p] = recordsTotal]
             /\ UNCHANGED << result, probeMissing >>
    /\ UNCHANGED << recordsTotal, file, dir, calls, hit, item, all_data, respLog,
                    pageFailed, buf, pos, wrote, afterReturn, everReturned >>
    /\ UNCHANGED fieldVars

\* One turn of fetch_all_data's loop (lines 79-82).
Page(p) ==
    /\ pc[p] = "paging"
    /\ item[p] < PageCount(total_records[p])
    /\ LET req == GenerateGetUrl(PageParams(item[p])) IN
        /\ reqLog' = [reqLog EXCEPT ![p] = Append(@, req)]
        /\ \E r \in PageResponses(req.draw) :
            IF Raises(r)
            THEN /\ pc' = [pc EXCEPT ![p] = "raised"]
                 /\ result' = [result EXCEPT ![p] = Raised("RequestException")]
                 /\ pageFailed' = [pageFailed EXCEPT ![p] = @ \/ TransportFailure(r)]
                 /\ UNCHANGED << item, all_data, respLog >>
            ELSE /\ all_data' = [all_data EXCEPT ![p] = @ \o DataOf(r)]
                 /\ respLog' = [respLog EXCEPT ![p] = Append(@, DataOf(r))]
                 /\ item' = [item EXCEPT ![p] = @ + 1]
                 /\ pageFailed' = [pageFailed EXCEPT ![p] = @ \/ TransportFailure(r)]
                 /\ UNCHANGED << pc, result >>
    /\ UNCHANGED << recordsTotal, file, dir, calls, hit, probeMissing, total_records,
                    buf, pos, wrote, afterReturn, everReturned >>
    /\ UNCHANGED fieldVars

\* fetch_all_data returns; save_payment_plan_data builds the snapshot in
\* memory and makes the parent directory (lines 83, 99-103).
SaveBuild(p) ==
    /\ pc[p] = "paging"
    /\ item[p] >= PageCount(total_records[p])
    /\ buf' = [buf EXCEPT ![p] =
                  Serialize([i \in 1..Len(all_data[p]) |-> ToNamedRecord(all_data[p][i])])]
    /\ dir' = TRUE
    /\ pc' = [pc EXCEPT ![p] = "open"]
    /\ UNCHANGED << recordsTotal, file, calls, hit, probeMissing, total_records, item,
                    all_data, reqLog, respLog, pageFailed, pos, wrote, result,
                    afterReturn, everReturned >>
    /\ UNCHANGED fieldVars

\* open(OUTPUT_PATH, "w") (line 105).
Open(p) ==
    /\ pc[p] = "open"
    /\ file' = OpenW(file)
    /\ wrote' = [wrote EXCEPT ![p] = TRUE]
    /\ pos' = [pos EXCEPT ![p] = 0]
    /\ pc' = [pc EXCEPT ![p] = "write"]
    /\ UNCHANGED << recordsTotal, dir, calls, hit, probeMissing, total_records, item,
                    all_data, reqLog, respLog, pageFailed, buf, result, afterReturn,
                    everReturned >>
    /\ UNCHANGED fieldVars

\* json.dump writes the document piece by piece into the handle's buffer
\* (line 106); the buffer is written out whenever it fills.
Flush(p) ==
    /\ pc[p] = "write"
    /\ \E k \in (pos[p] + 1)..(Len(buf[p]) - 1) :
        /\ file' = WriteAt(file, buf[p], pos[p] + 1, k)
        /\ pos' = [pos EXCEPT ![p] = k]
    /\ UNCHANGED << recordsTotal, dir, pc, calls, hit, probeMissing, total_records, item,
                    all_data, reqLog, respLog, pageFailed, buf, wrote, result,
                    afterReturn, everReturned >>
    /\ UNCHANGED fieldVars

\* The with block ends (line 107): the rest of the buffer is written out and
\* the handle closed.
Close(p) ==
    /\ pc[p] = "write"
    /\ file' = WriteAt(file, buf[p], pos[p] + 1, Len(buf[p]))
    /\ pos' = [pos EXCEPT ![p] = Len(buf[p])]
    /\ pc' = [pc EXCEPT ![p] = "read"]
    /\ UNCHANGED << recordsTotal, dir, calls, hit, probeMissing, total_records, item,
                    all_data, reqLog, respLog, pageFailed, buf, wrote, result,
                    afterReturn, everReturned >>
    /\ UNCHANGED fieldVars

\* open(OUTPUT_PATH, "r") and json.load (lines 134-135).
Read(p) ==
    /\ pc[p] = "read"
    /\ IF ~Exists(file)
       THEN /\ pc' = [pc EXCEPT ![p] = "raised"]
            /\ result' = [result EXCEPT ![p] = Raised("FileNotFoundError")]
            /\ UNCHANGED everReturned
       ELSE IF ~Parses(file.content)
       THEN /\ pc' = [pc EXCEPT ![p] = "raised"]
            /\ result' = [result EXCEPT ![p] = Raised("JSONDecodeError")]
            /\ UNCHANGED everReturned
       ELSE /\ pc' = [pc EXCEPT ![p] = "done"]
            /\ result' = [result EXCEPT ![p] = Returned(Deserialize(file.content))]
            /\ everReturned' = TRUE
    /\ UNCHANGED << recordsTotal, file, dir, calls, hit, probeMissing, total_records,
                    item, all_data, reqLog, respLog, pageFailed, buf, pos, wrote,
                    afterReturn >>
    /\ UNCHANGED fieldVars

\* The process is terminated; what its handle had not written out is lost.
Kill(p) ==
    /\ Running(p)
    /\ pc' = [pc EXCEPT ![p] = "killed"]
    /\ UNCHANGED << recordsTotal, file, dir, calls, hit, probeMissing, total_records,
                    item, all_data, reqLog, respLog, pageFailed, buf, pos, wrote, result,
                    afterReturn, everReturned >>
    /\ UNCHANGED fieldVars

FieldsIdle ==
    /\ text = << >>
    /\ parsed = << >>
    /\ raw = << >>
    /\ job_dict = NoRecord
    /\ job_dict0 = NoRecord
    /\ got = NoRecord
    /\ stage = "off"

Init ==
    /\ recordsTotal \in Totals
    /\ \/ file = Absent /\ dir = FALSE
       \/ file = OldSnapshot /\ dir = TRUE
    /\ pc = [p \in Procs |-> "idle"]
    /\ calls = [p \in Procs |-> 0]
    /\ hit = [p \in Procs |-> FALSE]
    /\ probeMissing = [p \in Procs |-> FALSE]
    /\ total_records = [p \in Procs |-> 0]
    /\ item = [p \in Procs |-> 0]
    /\ all_data = [p \in Procs |-> << >>]
    /\ reqLog = [p \in Procs |-> << >>]
    /\ respLog = [p \in Procs |-> << >>]
    /\ pageFailed = [p \in Procs |-> FALSE]
    /\ buf = [p \in Procs |-> << >>]
    /\ pos = [p \in Procs |-> 0]
    /\ wrote = [p \in Procs |-> FALSE]
    /\ result = [p \in Procs |-> NoResult]
    /\ afterReturn = [p \in Procs |-> FALSE]
    /\ everReturned = FALSE
    /\ FieldsIdle

\* Invocations that may overlap, and may be terminated.
Next ==
    \E p \in Procs :
        \/ Gate(p)
        \/ Probe(p)
        \/ Page(p)
        \/ SaveBuild(p)
        \/ Open(p)
        \/ Flush(p)
        \/ Close(p)
        \/ Read(p)
        \/ Kill(p)

Spec == Init /\ [][Next]_vars

\* Invocations one after the other: none starts while another runs.
NextSeq ==
    \E p \in Procs :
        \/ (\A q \in Procs : ~Running(q)) /\ Gate(p)
        \/ Probe(p)
        \/ Page(p)
        \/ SaveBuild(p)
        \/ Open(p)
        \/ Flush(p)
        \/ Close(p)
        \/ Read(p)
        \/ Kill(p)

SpecSeq == Init /\ [][NextSeq]_vars

----------------------------------------------------------------------------
(* JobListing (classes.py). *)

IsDigit(c) == c \in {"0", "1", "2", "3", "4", "5", "6", "7", "8", "9"}

DigitVal(c) ==
    CASE c = "0" -> 0 [] c = "1" -> 1 [] c = "2" -> 2 [] c = "3" -> 3 [] c = "4" -> 4
      [] c = "5" -> 5 [] c = "6" -> 6 [] c = "7" -> 7 [] c = "8" -> 8 [] c = "9" -> 9

\* [\d,]+ taken greedily from position i: the last position of the run, i - 1
\* when the run is empty.
RECURSIVE RunEnd(_, _)
RunEnd(s, i) ==
    IF i <= Len(s) /\ (IsDigit(s[i]) \/ s[i] = ",") THEN RunEnd(s, i + 1) ELSE i - 1

\* \$([\d,]+\.\d{2}) tried at position i: the last position of the match, 0
\* when there is none.  The run gives characters back until \.\d{2} follows.
MatchSalaryAt(s, i) ==
    IF s[i] # "$" THEN 0
    ELSE LET ends == {m \in (i + 1)..RunEnd(s, i + 1) :
                         /\ m + 3 <= Len(s)
                         /\ s[m + 1] = "."
                         /\ IsDigit(s[m + 2])
                         /\ IsDigit(s[m + 3])}
         IN IF ends = {} THEN 0
            ELSE (CHOOSE m \in ends : \A n \in ends : n <= m) + 3

\* re.findall from position i: the groups of the matches found left to right,
\* each search resuming after the match before it.
RECURSIVE FindAll(_, _)
FindAll(s, i) ==
    IF i > Len(s) THEN << >>
    ELSE LET e == MatchSalaryAt(s, i)
         IN IF e = 0 THEN FindAll(s, i + 1)
            ELSE << SubSeq(s, i + 1, e) >> \o FindAll(s, e + 1)

\* str.replace(',', '')
StripCommas(g) == LET NotComma(c) == c # "," IN SelectSeq(g, NotComma)

RECURSIVE DigitsValue(_)
DigitsValue(d) ==
    IF d = << >> THEN 0
    ELSE 10 * DigitsValue(SubSeq(d, 1, Len(d) - 1)) + DigitVal(d[Len(d)])

\* float() of digits, a point and two digits, as the number of hundredths.
Float(t) ==
    100 * DigitsValue(SubSeq(t, 1, Len(t) - 3)) + DigitsValue(SubSeq(t, Len(t) - 1, Len(t)))

\* _parse_salary, had it tested for at least two matches.
ParseSalaryAtLeastTwo(salary_str) ==
    LET min_max == FindAll(salary_str, 1)
    IN IF Len(min_max) >= 2
       THEN << Some(Float(StripCommas(min_max[1]))), Some(Float(StripCommas(min_max[2]))) >>
       ELSE << Null, Null >>

\* JobListing._parse_salary
ParseSalary(salary_str) ==
    LET min_max == FindAll(salary_str, 1)
    IN IF Len(min_max) = 2
       THEN << Some(Float(StripCommas(min_max[1]))), Some(Float(StripCommas(min_max[2]))) >>
       ELSE << Null, Null >>

\* (.*?)< tried from position k: the position of the < that ends the match, 0
\* when there is none.  The dot matches any character but a line break.
RECURSIVE LazyEnd(_, _)
LazyEnd(s, k) ==
    IF k > Len(s) THEN 0
    ELSE IF s[k] = "<" THEN k
    ELSE IF s[k] = "\n" THEN 0
    ELSE LazyEnd(s, k + 1)

\* re.search(r'>(.*?)<', s) from position i: the group of the leftmost match.
RECURSIVE Search(_, _)
Search(s, i) ==
    IF i > Len(s) THEN Null
    ELSE IF s[i] = ">" /\ LazyEnd(s, i + 1) # 0
    THEN Some(SubSeq(s, i + 1, LazyEnd(s, i + 1) - 1))
    ELSE Search(s, i + 1)

\* title_match.group(1) if title_match else None
ExtractTitle(markup) == Search(markup, 1)

\* What an accessor gives: a value, or the exception it raised.
Ok(v) == [ok |-> TRUE, val |-> v, err |-> ""]
Err(e) == [ok |-> FALSE, val |-> << >>, err |-> e]

Accessors == {"title", "id", "date", "category", "annual_salary_min",
              "annual_salary_max", "monthly_salary_min", "monthly_salary_max"}

\* The title property, had it taken group(1) of the match without testing it.
TitleUnguarded(d) ==
    IF "Job Title" \notin DOMAIN d THEN Err("KeyError")
    ELSE IF ExtractTitle(d["Job Title"]) = Null THEN Err("AttributeError")
    ELSE Ok(ExtractTitle(d["Job Title"]))

\* JobListing.title
Title(d) ==
    IF "Job Title" \notin DOMAIN d THEN Err("KeyError")
    ELSE Ok(ExtractTitle(d["Job Title"]))

\* JobListing.id, .date, .category: self.job_dict[key]
Passthrough(d, key) == IF key \notin DOMAIN d THEN Err("KeyError") ELSE Ok(d[key])

\* The four salary properties: one side of _parse_salary(self.job_dict[key]).
SalarySide(d, key, side) ==
    IF key \notin DOMAIN d THEN Err("KeyError") ELSE Ok(ParseSalary(d[key])[side])

Access(d, a) ==
    CASE a = "title" -> Title(d)
      [] a = "id" -> Passthrough(d, "Job ID (Job Code)")
      [] a = "date" -> Passthrough(d, "Effective Date")
      [] a = "category" -> Passthrough(d, "Job Category")
      [] a = "annual_salary_min" -> SalarySide(d, "Annual Min - Max", 1)
      [] a = "annual_salary_max" -> SalarySide(d, "Annual Min - Max", 2)
      [] a = "monthly_salary_min" -> SalarySide(d, "Monthly Min - Max", 1)
      [] a = "monthly_salary_max" -> SalarySide(d, "Monthly Min - Max", 2)

----------------------------------------------------------------------------
(* The field-level runs: a salary text parsed, a title markup extracted, a    *)
(* RawRecord normalised and read through the accessors of a JobListing.      *)

SalarySegs ==
    { << "$", "1", ".", "2", "0" >>,
      << "$", "2", ",", "1", ".", "0", "5" >>,
      << "$", ",", ".", "1", "2" >>,
      << "$", "1", ".", "2" >>,
      << "1", ".", "0", "0" >>,
      << "-" >>,
      << "$" >>,
      << "2" >> }

SalaryTexts == { Concat(ss) : ss \in UNION { [1..n -> SalarySegs] : n \in 0..MaxSegs } }

TitleChars == { ">", "<", "a", "\n" }

TitleTexts == UNION { [1..n -> TitleChars] : n \in 0..MaxTitleLen }

RecTitles ==
    { << "<", "a", ">", "T", "<", "/", "a", ">" >>,
      << "T" >>,
      << ">", "\n", "<" >> }

RecSalaries ==
    { << "$", "1", ".", "2", "0", "-", "$", "2", ",", "1", ".", "0", "5" >>,
      << "$", "1", ".", "2", "0" >>,
      << "-" >> }

\* The records the API may serve: six fields, or fewer, or more.
RawRecords ==
    { SubSeq(<< t, << "7" >>, << "c" >>, << "d" >>, a, m >>
                 \o [i \in 1..(MaxFields - 6) |-> << "x" >>], 1, n) :
        t \in RecTitles, a \in RecSalaries, m \in RecSalaries, n \in 0..MaxFields }

\* No invocation of get_payment_plan in a field-level run.
ProtoIdle ==
    /\ recordsTotal = 0
    /\ file = Absent
    /\ dir = FALSE
    /\ pc = [p \in Procs |-> "idle"]
    /\ calls = [p \in Procs |-> 0]
    /\ hit = [p \in Procs |-> FALSE]
    /\ probeMissing = [p \in Procs |-> FALSE]
    /\ total_records = [p \in Procs |-> 0]
    /\ item = [p \in Procs |-> 0]
    /\ all_data = [p \in Procs |-> << >>]
    /\ reqLog = [p \in Procs |-> << >>]
    /\ respLog = [p \in Procs |-> << >>]
    /\ pageFailed = [p \in Procs |-> FALSE]
    /\ buf = [p \in Procs |-> << >>]
    /\ pos = [p \in Procs |-> 0]
    /\ wrote = [p \in Procs |-> FALSE]
    /\ result = [p \in Procs |-> NoResult]
    /\ afterReturn = [p \in Procs |-> FALSE]
    /\ everReturned = FALSE

InitFields ==
    /\ ProtoIdle
    /\ parsed = << >>
    /\ job_dict = NoRecord
    /\ job_dict0 = NoRecord
    /\ got = NoRecord
    /\ \/ stage = "salary" /\ text \in SalaryTexts /\ raw = << >>
       \/ stage = "title" /\ text \in TitleTexts /\ raw = << >>
       \/ stage = "raw" /\ text = << >> /\ raw \in RawRecords

\* self._parse_salary(text)
ParseSalaryStep ==
    /\ stage = "salary"
    /\ parsed' = ParseSalary(text)
    /\ stage' = "salary_done"
    /\ UNCHANGED << text, raw, job_dict, job_dict0, got >>
    /\ UNCHANGED protoVars

\* The title of a JobListing whose "Job Title" is text.
TitleStep ==
    /\ stage = "title"
    /\ parsed' = ExtractTitle(text)
    /\ stage' = "title_done"
    /\ UNCHANGED << text, raw, job_dict, job_dict0, got >>
    /\ UNCHANGED protoVars

\* dict(zip(KEYS, job)) (main.py line 99), and JobListing(data) over it.
NormalizeStep ==
    /\ stage = "raw"
    /\ job_dict' = ToNamedRecord(raw)
    /\ job_dict0' = ToNamedRecord(raw)
    /\ stage' = "listing"
    /\ UNCHANGED << text, parsed, raw, got >>
    /\ UNCHANGED protoVars

\* One accessor of the JobListing is read.
AccessStep(a) ==
    /\ stage = "listing"
    /\ a \notin DOMAIN got
    /\ got' = [b \in DOMAIN got \cup {a} |-> IF b = a THEN Access(job_dict, a) ELSE got[b]]
    /\ UNCHANGED << text, parsed, raw, job_dict, job_dict0, stage >>
    /\ UNCHANGED protoVars

NextFields ==
    \/ ParseSalaryStep
    \/ TitleStep
    \/ NormalizeStep
    \/ \E a \in Accessors : AccessStep(a)

SpecFields == InitFields /\ [][NextFields]_vars

----------------------------------------------------------------------------
(* The claims about the fetcher and the cache gate. *)

\* The least n with n * 100 >= total.
CeilPages(total) == CHOOSE n \in 0..total : n * 100 >= total /\ (n = 0 \/ (n - 1) * 100 < total)

\* The requests of an invocation after its probe.
PageRequests(p) == SubSeq(reqLog[p], 2, Len(reqLog[p]))

\* fetch_all_data has returned in this invocation.
Fetched(p) == pc[p] \in {"open", "write"} \/ wrote[p]

\* C1: the page requests go out in ascending page index i = 0, 1, ..., each with
\* length 100, start = i * 100 and draw = i; when fetch_all_data returns it has
\* issued exactly ceil(recordsTotal / 100) of them, and its accumulator is the
\* concatenation of the responses' data arrays in request order.
C1_Pagination ==
    \A p \in Procs :
        /\ \A i \in 1..Len(PageRequests(p)) :
              PageRequests(p)[i] = [draw |-> i - 1, start |-> (i - 1) * 100, length |-> 100]
        /\ Len(PageRequests(p)) <= CeilPages(total_records[p])
        /\ Fetched(p) =>
              /\ Len(PageRequests(p)) = CeilPages(total_records[p])
              /\ Len(respLog[p]) = Len(PageRequests(p))
              /\ all_data[p] = Concat(respLog[p])

\* recordsTotal = 250: three page requests, with start 0, 100 and 200, each
\* answered with data, and the accumulator holds the three pages in order.
C1_Witness ==
    \E p \in Procs :
        /\ Fetched(p)
        /\ total_records[p] = 250
        /\ [i \in 1..Len(PageRequests(p)) |-> PageRequests(p)[i].start] = << 0, 100, 200 >>
        /\ all_data[p] = << Row(0), Row(1), Row(2) >>

\* C2: with invocations one after the other, an invocation that finds the
\* file issues no network request and does not write the file; and one that
\* starts after an invocation has returned a snapshot finds the file, does not
\* fail, and returns the snapshot read from the file.
C2_CacheGate ==
    \A p \in Procs :
        /\ hit[p] => (reqLog[p] = << >> /\ ~wrote[p])
        /\ afterReturn[p] =>
              /\ hit[p]
              /\ pc[p] # "raised"
              /\ pc[p] = "done" =>
                    /\ Parses(file.content)
                    /\ result[p] = Returned(Deserialize(file.content))

\* Two calls in a row from no snapshot file: the first fetched and wrote, the
\* second found the file and returned the same snapshot.
C2_Witness ==
    \E p, q \in Procs :
        /\ p # q
        /\ pc[q] = "done" /\ ~hit[q] /\ wrote[q] /\ Len(reqLog[q]) >= 2
        /\ pc[p] = "done" /\ hit[p] /\ afterReturn[p]
        /\ result[p] = result[q]
        /\ Len(result[p].data) >= 1

\* C3: an invocation whose probe lacked recordsTotal issues no page request,
\* writes no snapshot file, and does not return a snapshot.
C3_ProbeErrorIsTerminal ==
    \A p \in Procs :
        probeMissing[p] =>
            /\ Len(reqLog[p]) = 1
            /\ ~wrote[p]
            /\ pc[p] # "done"

\* C4: after a page request of an invocation has failed at transport level,
\* the invocation has ended with the failure and has written nothing.
C4_FetchErrorIsFatal ==
    \A p \in Procs :
        pageFailed[p] => (pc[p] = "raised" /\ ~wrote[p])

\* C5: whenever no invocation is running, whether it ended or was terminated,
\* the snapshot file either does not exist or holds one complete snapshot.
C5_NoPartialSnapshot ==
    (\A p \in Procs : ~Running(p)) => (~Exists(file) \/ Parses(file.content))

\* C6: no lock is taken.  While the path is absent and another invocation is
\* between its existence check and its write, an invocation can still pass
\* the existence check into the fetch; an invocation at its write can always
\* open the file; and every invocation that passed the check on an absent path
\* and came back from the save has written the file.
C6_NoLock ==
    \A p \in Procs :
        /\ \A q \in Procs \ {p} :
              ( /\ pc[p] \in {"idle", "done", "raised", "killed"}
                /\ calls[p] < MaxCalls
                /\ ~Exists(file)
                /\ pc[q] \in {"probe", "paging", "open"} )
              => ENABLED (Gate(p) /\ pc'[p] = "probe")
        /\ pc[p] = "open" => ENABLED Open(p)
        /\ (pc[p] \in {"read", "done"} /\ ~hit[p] /\ ~probeMissing[p]) => wrote[p]

\* Both invocations passed the existence check before either wrote, both
\* fetched, and both have written the file.
C6_Witness ==
    /\ \A p \in Procs :
          /\ calls[p] = 1
          /\ ~hit[p]
          /\ Len(reqLog[p]) >= 2
          /\ wrote[p]
          /\ pc[p] \in {"read", "done"}

----------------------------------------------------------------------------
(* The claims about the field parsers and the record normaliser. *)

\* A number of the shape $<digits and commas>.<two digits> lies at i..k+2 of s,
\* k the position of its point.  needDigit: the part before the point holds a
\* digit.
ShapedAt(s, i, k, needDigit) ==
    /\ s[i] = "$"
    /\ i + 1 <= k - 1
    /\ \A m \in (i + 1)..(k - 1) : IsDigit(s[m]) \/ s[m] = ","
    /\ needDigit => \E m \in (i + 1)..(k - 1) : IsDigit(s[m])
    /\ s[k] = "."
    /\ k + 2 <= Len(s)
    /\ IsDigit(s[k + 1])
    /\ IsDigit(s[k + 2])

Numbers(s, needDigit) ==
    { ik \in (1..Len(s)) \X (1..Len(s)) : ShapedAt(s, ik[1], ik[2], needDigit) }

RECURSIVE Pow10(_)
Pow10(n) == IF n = 0 THEN 1 ELSE 10 * Pow10(n - 1)

RECURSIVE SumOver(_, _, _, _)
SumOver(s, ps, i, k) ==
    IF ps = {} THEN 0
    ELSE LET m == CHOOSE x \in ps : TRUE
         IN DigitVal(s[m]) * Pow10(Cardinality({n \in (m + 1)..(k - 1) : IsDigit(s[n])}))
            + SumOver(s, ps \ {m}, i, k)

\* The number at i..k+2 read with its commas dropped, in hundredths.
Hundredths(s, ik) ==
    100 * SumOver(s, {m \in (ik[1] + 1)..(ik[2] - 1) : IsDigit(s[m])}, ik[1], ik[2])
    + 10 * DigitVal(s[ik[2] + 1]) + DigitVal(s[ik[2] + 2])

\* What the claim gives for s, with the numbers counted as needDigit says.
SalaryClaim(s, needDigit) ==
    LET ns == Numbers(s, needDigit)
    IN IF Cardinality(ns) = 2
       THEN LET first == CHOOSE x \in ns : \A y \in ns : x[1] <= y[1]
                second == CHOOSE y \in ns : y # first
            IN << Some(Hundredths(s, first)), Some(Hundredths(s, second)) >>
       ELSE << Null, Null >>

\* C7, as stated: the pair of the two numbers, in source order, exactly when the
\* text holds exactly two numbers $<digits with optional commas>.<2 digits>,
\* each with at least one digit before the point; (null, null) otherwise.
C7_AsStated == stage = "salary_done" => parsed = SalaryClaim(text, TRUE)

\* C7, amended: the same, the part before the point being any non-empty run of
\* digits and commas, one of commas alone included.
C7_ParseSalary == stage = "salary_done" => parsed = SalaryClaim(text, FALSE)

\* Two numbers, the first the greater: returned in source order.
C7_Witness ==
    /\ stage = "salary_done"
    /\ Cardinality(Numbers(text, FALSE)) = 2
    /\ Len(parsed[1]) = 1 /\ Len(parsed[2]) = 1
    /\ parsed[1][1] > parsed[2][1]

\* The positions of the first > of s, and of the first < after it; 0 for none.
FirstGt(s) ==
    IF \E i \in 1..Len(s) : s[i] = ">"
    THEN CHOOSE i \in 1..Len(s) : s[i] = ">" /\ \A j \in 1..(i - 1) : s[j] # ">"
    ELSE 0

NextLt(s) ==
    IF FirstGt(s) # 0 /\ \E i \in (FirstGt(s) + 1)..Len(s) : s[i] = "<"
    THEN CHOOSE i \in (FirstGt(s) + 1)..Len(s) :
            s[i] = "<" /\ \A j \in (FirstGt(s) + 1)..(i - 1) : s[j] # "<"
    ELSE 0

\* C8: the title is the text strictly between the first > and the next <
\* after it, and null when there is no > or no < after the first >.
C8_TitleBetweenBrackets ==
    stage = "title_done" =>
        parsed = IF NextLt(text) = 0 THEN Null
                 ELSE Some(SubSeq(text, FirstGt(text) + 1, NextLt(text) - 1))

AllKeys == { KEYS[i] : i \in 1..Len(KEYS) }

\* C9: a RawRecord of six fields is read back from its NamedRecord, in schema
\* order, as it was; of a RawRecord of fewer fields the NamedRecord holds the
\* first keys only, each with its field, and none of the others.
C9_ZipShortest ==
    stage = "listing" =>
        /\ Len(raw) = 6 =>
              /\ DOMAIN job_dict = AllKeys
              /\ [i \in 1..6 |-> job_dict[KEYS[i]]] = raw
        /\ Len(raw) < 6 =>
              /\ DOMAIN job_dict = { KEYS[i] : i \in 1..Len(raw) }
              /\ \A i \in 1..Len(raw) : job_dict[KEYS[i]] = raw[i]

\* A RawRecord of three fields has been normalised: three keys, three absent.
C9_Witness ==
    /\ stage = "listing"
    /\ Len(raw) = 3
    /\ Cardinality(DOMAIN job_dict) = 3

\* C10: of a NamedRecord that holds the six keys no accessor raises; each gives
\* what its own field alone decides: the three plain fields as they are, the
\* title or null, each salary side or null; and the record stays as it was.
C10_AccessorsTotal ==
    (stage = "listing" /\ DOMAIN job_dict0 = AllKeys) =>
        /\ job_dict = job_dict0
        /\ \A a \in DOMAIN got : got[a].ok
        /\ "title" \in DOMAIN got =>
              got["title"].val = ExtractTitle(job_dict0["Job Title"])
        /\ "id" \in DOMAIN got => got["id"].val = job_dict0["Job ID (Job Code)"]
        /\ "date" \in DOMAIN got => got["date"].val = job_dict0["Effective Date"]
        /\ "category" \in DOMAIN got => got["category"].val = job_dict0["Job Category"]
        /\ "annual_salary_min" \in DOMAIN got =>
              got["annual_salary_min"].val = ParseSalary(job_dict0["Annual Min - Max"])[1]
        /\ "annual_salary_max" \in DOMAIN got =>
              got["annual_salary_max"].val = ParseSalary(job_dict0["Annual Min - Max"])[2]
        /\ "monthly_salary_min" \in DOMAIN got =>
              got["monthly_salary_min"].val = ParseSalary(job_dict0["Monthly Min - Max"])[1]
        /\ "monthly_salary_max" \in DOMAIN got =>
              got["monthly_salary_max"].val = ParseSalary(job_dict0["Monthly Min - Max"])[2]

\* Every accessor read of a record whose title and annual range do not match
\* and whose monthly range does: null for those two fields only.
C10_Witness ==
    /\ stage = "listing"
    /\ DOMAIN job_dict0 = AllKeys
    /\ DOMAIN got = Accessors
    /\ got["title"].val = Null
    /\ got["annual_salary_min"].val = Null
    /\ got["annual_salary_max"].val = Null
    /\ got["monthly_salary_min"].val # Null
    /\ got["monthly_salary_max"].val # Null
    /\ got["id"].val = << "7" >>

====
